---- MODULE Spec2Model ----
(***************************************************************************)
(* Model of ignition::math::IntervalCubicSpline (SplinePrivate.cc, held in *)
(* src/src/Line3_TEST.cc lines 167-411).                                   *)
(*                                                                         *)
(* Numbers.  A C++ double is modelled as a fixed-point integer counting    *)
(* units of 1/FP, so 1.0 is FP.  A product of two doubles is FMul, which   *)
(* rounds down to the next unit.  The constant basis matrices hold whole   *)
(* numbers and are kept as plain integers; the inverse of the Bezier basis *)
(* is kept as an exact fraction (numerator matrix over one denominator),   *)
(* and every quantity HasLoop derives from it carries that denominator, so *)
(* that its tolerance comparisons (1e-6) are decided as the double code    *)
(* decides them on whole-number control points.  +infinity is INF_D, an    *)
(* integer no finite computation of the model reaches.                     *)
(***************************************************************************)
EXTENDS Integers, Sequences, FiniteSets, TLC

\* Fixed-point units per 1.0: the finest resolution at which the squared
\* lengths of the model's vectors stay below 2^31.
FP == 4000
\* Query parameters are k/TDen for k in -1 .. TDen+1.
TDen == 10
\* Derivative orders queried are 0 .. MaxOrder.
MaxOrder == 4
Abs(x) == IF x < 0 THEN -x ELSE x

\* Product of two fixed-point numbers, rounded down (overflow-free split).
FMul(a, b) == (a \div FP) * b + ((a % FP) * b) \div FP

INF_D == 2147483647

\* equal<double>(a, b) with the default epsilon 1e-6, for operands that
\* count units of 1/scale.
equal(a, b, scale) == Abs(a - b) <= (scale \div 1000000)

\* Integer square root by Newton's iteration: the largest r with r * r <= n,
\* from a start x >= r, x > 0.
RECURSIVE SqrtFrom(_, _)
SqrtFrom(n, x) ==
  LET y == (x + n \div x) \div 2
  IN IF y >= x THEN x ELSE SqrtFrom(n, y)

(***************************************************************************)
(* Vector3d                                                                *)
(***************************************************************************)
Zero == <<0, 0, 0>>

Vec(x, y, z) == <<x * FP, y * FP, z * FP>>

Minus(u, v) == <<u[1] - v[1], u[2] - v[2], u[3] - v[3]>>

Cross(u, v) ==
  << FMul(u[2], v[3]) - FMul(u[3], v[2]),
     FMul(u[3], v[1]) - FMul(u[1], v[3]),
     FMul(u[1], v[2]) - FMul(u[2], v[1]) >>

Dot(u, v) == FMul(u[1], v[1]) + FMul(u[2], v[2]) + FMul(u[3], v[3])

SquaredLength(u) == Dot(u, u)

\* Vector3d::Length of a vector counting units of 1/scale, in the same units.
Length(u) ==
  IF u = Zero THEN 0
  ELSE SqrtFrom(u[1] * u[1] + u[2] * u[2] + u[3] * u[3],
                Abs(u[1]) + Abs(u[2]) + Abs(u[3]))

\* Vector3d::operator== (component-wise equal with epsilon 1e-6).
VecEqual(u, v, scale) ==
  equal(u[1], v[1], scale) /\ equal(u[2], v[2], scale) /\ equal(u[3], v[3], scale)

InfVector == <<INF_D, INF_D, INF_D>>

(***************************************************************************)
(* Matrix4d                                                                *)
(***************************************************************************)
ZeroMatrix == << <<0, 0, 0, 0>>, <<0, 0, 0, 0>>, <<0, 0, 0, 0>>, <<0, 0, 0, 0>> >>

\* Matrix4d::operator* with a whole-number left operand: exact.
MatMul(A, B) ==
  [i \in 1..4 |-> [j \in 1..4 |->
     A[i][1] * B[1][j] + A[i][2] * B[2][j] + A[i][3] * B[3][j] + A[i][4] * B[4][j]]]

\* Vector4d::operator*(Matrix4d): row vector times matrix, both fixed-point.
VecMat(p, M) ==
  [j \in 1..4 |->
     FMul(p[1], M[1][j]) + FMul(p[2], M[2][j]) + FMul(p[3], M[3][j]) + FMul(p[4], M[4][j])]

Others(i) == IF i = 1 THEN <<2, 3, 4>> ELSE IF i = 2 THEN <<1, 3, 4>>
             ELSE IF i = 3 THEN <<1, 2, 4>> ELSE <<1, 2, 3>>

Det3(M, r, c) ==
    M[r[1]][c[1]] * (M[r[2]][c[2]] * M[r[3]][c[3]] - M[r[2]][c[3]] * M[r[3]][c[2]])
  - M[r[1]][c[2]] * (M[r[2]][c[1]] * M[r[3]][c[3]] - M[r[2]][c[3]] * M[r[3]][c[1]])
  + M[r[1]][c[3]] * (M[r[2]][c[1]] * M[r[3]][c[2]] - M[r[2]][c[2]] * M[r[3]][c[1]])

Cofactor(M, i, j) ==
  (IF (i + j) % 2 = 0 THEN 1 ELSE -1) * Det3(M, Others(i), Others(j))

Determinant(M) ==
  M[1][1] * Cofactor(M, 1, 1) + M[1][2] * Cofactor(M, 1, 2)
  + M[1][3] * Cofactor(M, 1, 3) + M[1][4] * Cofactor(M, 1, 4)

\* Matrix4d::Inverse of a whole-number matrix, as the exact fraction
\* num/den in lowest terms with den > 0.
Inverse(M) ==
  LET det == Determinant(M)
      adj == [i \in 1..4 |-> [j \in 1..4 |-> Cofactor(M, j, i)]]
      sgn == IF det < 0 THEN -1 ELSE 1
      entries == {adj[i][j] : i \in 1..4, j \in 1..4}
      g == CHOOSE d \in 1..Abs(det) :
             /\ Abs(det) % d = 0
             /\ \A e \in entries : e % d = 0
             /\ \A d2 \in (d + 1)..Abs(det) :
                  ~(Abs(det) % d2 = 0 /\ \A e \in entries : e % d2 = 0)
  IN [num |-> [i \in 1..4 |-> [j \in 1..4 |-> (sgn * adj[i][j]) \div g]],
      den |-> Abs(det) \div g]

(***************************************************************************)
(* ControlPoint: the sequence of its derivatives, order m at index m + 1.  *)
(***************************************************************************)
\* ControlPoint::MthDerivative(m) const: orders not held read as zero.
MthDerivative(cp, m) == IF m + 1 <= Len(cp) THEN cp[m + 1] ELSE Zero

\* ControlPoint::MthDerivative(m) = v: the sequence grows with zeros up to m.
SetMthDerivative(cp, m, v) ==
  [i \in 1..(IF m + 1 > Len(cp) THEN m + 1 ELSE Len(cp)) |->
     IF i = m + 1 THEN v ELSE IF i <= Len(cp) THEN cp[i] ELSE Zero]

(***************************************************************************)
(* Free functions                                                          *)
(***************************************************************************)
PolynomialPowers(_order, _t) ==
  LET t2 == FMul(_t, _t)
      t3 == FMul(t2, _t)
  IN CASE _order = 0 -> <<t3, t2, _t, FP>>
       [] _order = 1 -> <<3 * t2, 2 * _t, FP, 0>>
       [] _order = 2 -> <<6 * _t, 2 * FP, 0, 0>>
       [] _order = 3 -> <<6 * FP, 0, 0, 0>>
       [] OTHER      -> <<0, 0, 0, 0>>

HermiteBasis ==
  << << 2, -2,  1,  1>>,
     <<-3,  3, -2, -1>>,
     << 0,  0,  1,  0>>,
     << 1,  0,  0,  0>> >>

ComputeCubicBernsteinHermiteCoeff(_startPoint, _endPoint) ==
  LET point0 == MthDerivative(_startPoint, 0)
      point1 == MthDerivative(_endPoint, 0)
      tan0 == MthDerivative(_startPoint, 1)
      tan1 == MthDerivative(_endPoint, 1)
      cmatrix == << <<point0[1], point0[2], point0[3], FP>>,
                    <<point1[1], point1[2], point1[3], FP>>,
                    <<tan0[1], tan0[2], tan0[3], FP>>,
                    <<tan1[1], tan1[2], tan1[3], FP>> >>
  IN MatMul(HermiteBasis, cmatrix)

(***************************************************************************)
(* IntervalCubicSpline.  A spline value is the record                      *)
(* [startPoint, endPoint, coeffs, arcLength].                              *)
(***************************************************************************)
Constructed ==
  [startPoint |-> <<Zero, Zero>>, endPoint |-> <<Zero, Zero>>,
   coeffs |-> ZeroMatrix, arcLength |-> 0]

DoInterpolateMthDerivative(this, _mth, _t) ==
  LET powers == PolynomialPowers(_mth, _t)
      interpolation == VecMat(powers, this.coeffs)
  IN <<interpolation[1], interpolation[2], interpolation[3]>>

\* InterpolateMthDerivative without the upper half of the bound check.
InterpolateMthDerivative_NoUpperCheck(this, _mth, _t) ==
  IF _t < 0 THEN InfVector
  ELSE IF equal(_t, 0, FP) THEN MthDerivative(this.startPoint, _mth)
  ELSE IF equal(_t, FP, FP) THEN MthDerivative(this.endPoint, _mth)
  ELSE DoInterpolateMthDerivative(this, _mth, _t)

\* InterpolateMthDerivative answering t = 1 from the start point.
InterpolateMthDerivative_StartAtOne(this, _mth, _t) ==
  IF _t < 0 \/ _t > FP THEN InfVector
  ELSE IF equal(_t, 0, FP) THEN MthDerivative(this.startPoint, _mth)
  ELSE IF equal(_t, FP, FP) THEN MthDerivative(this.startPoint, _mth)
  ELSE DoInterpolateMthDerivative(this, _mth, _t)

InterpolateMthDerivative(this, _mth, _t) ==
  IF _t < 0 \/ _t > FP THEN InfVector
  ELSE IF equal(_t, 0, FP) THEN MthDerivative(this.startPoint, _mth)
  ELSE IF equal(_t, FP, FP) THEN MthDerivative(this.endPoint, _mth)
  ELSE DoInterpolateMthDerivative(this, _mth, _t)

ArcLength(this, _t) ==
  IF _t < 0 \/ _t > FP THEN INF_D
  ELSE
    LET w1 == (28444 * _t) \div 100000
        w23 == (23931 * _t) \div 100000
        w45 == (11846 * _t) \div 100000
        x1 == (50000 * _t) \div 100000
        x2 == (23076 * _t) \div 100000
        x3 == (76923 * _t) \div 100000
        x4 == (4691 * _t) \div 100000
        x5 == (95308 * _t) \div 100000
    IN FMul(w1, Length(InterpolateMthDerivative(this, 1, x1)))
       + FMul(w23, Length(InterpolateMthDerivative(this, 1, x2)))
       + FMul(w23, Length(InterpolateMthDerivative(this, 1, x3)))
       + FMul(w45, Length(InterpolateMthDerivative(this, 1, x4)))
       + FMul(w45, Length(InterpolateMthDerivative(this, 1, x5)))

BezierBasis ==
  << <<-1,  3, -3,  1>>,
     << 3, -6,  3,  0>>,
     <<-3,  3,  0,  0>>,
     << 1,  0,  0,  0>> >>

\* Row i of a Matrix4d, as the Vector3d of its first three entries.
Row3(M, i) == <<M[i][1], M[i][2], M[i][3]>>

\* The cross products HasLoop branches on, from the edges a, b, c and the
\* diagonal d = p3 - p1.  The edges count units of 1/(den * FP), the cross
\* products units of 1/(den^2 * FP), and the scalar products HasLoop takes
\* of them units of 1/(den^3 * FP) and 1/(den^4 * FP).
LoopCrosses(den, a, b, c, d) ==
  [den |-> den, a |-> a, b |-> b, c |-> c, d |-> d,
   axc |-> Cross(a, c), bxc |-> Cross(b, c), axb |-> Cross(a, b)]

\* The edges, from the rows p1..p4 of pmatrix.
LoopEdges(den, pmatrix) ==
  LoopCrosses(den,
              Minus(Row3(pmatrix, 4), Row3(pmatrix, 1)),
              Minus(Row3(pmatrix, 2), Row3(pmatrix, 1)),
              Minus(Row3(pmatrix, 3), Row3(pmatrix, 4)),
              Minus(Row3(pmatrix, 3), Row3(pmatrix, 1)))

\* pmatrix = bmatrix.Inverse() * coeffs, with the inverse as num/den.
LoopPoints(inv, _coeffs) == LoopEdges(inv.den, MatMul(inv.num, _coeffs))

\* What HasLoop computes before it branches.
LoopTerms(this) == LoopPoints(Inverse(BezierBasis), this.coeffs)

\* The branches of HasLoop reporting a loop in the parallel tangents case.
LoopDecision_ParallelLoops(q) ==
  IF VecEqual(q.bxc, Zero, q.den * q.den * FP)
  THEN IF ~VecEqual(q.axb, Zero, q.den * q.den * FP)
       THEN TRUE
       ELSE Length(q.d) < Length(q.b)
  ELSE IF ~equal(Dot(q.a, q.bxc), 0, q.den * q.den * q.den * FP)
  THEN TRUE
  ELSE \/ /\ ~VecEqual(q.axc, Zero, q.den * q.den * FP)
          /\ Abs(Dot(q.axc, q.bxc)) < SquaredLength(q.bxc)
       \/ /\ ~VecEqual(q.axb, Zero, q.den * q.den * FP)
          /\ Abs(Dot(q.axb, q.bxc)) < SquaredLength(q.bxc)

\* The branches of HasLoop comparing the collinear distances with <=
\* instead of <.
LoopDecision_NonStrict(q) ==
  IF VecEqual(q.bxc, Zero, q.den * q.den * FP)
  THEN IF ~VecEqual(q.axb, Zero, q.den * q.den * FP)
       THEN FALSE
       ELSE Length(q.d) <= Length(q.b)
  ELSE IF ~equal(Dot(q.a, q.bxc), 0, q.den * q.den * q.den * FP)
  THEN TRUE
  ELSE \/ /\ ~VecEqual(q.axc, Zero, q.den * q.den * FP)
          /\ Abs(Dot(q.axc, q.bxc)) < SquaredLength(q.bxc)
       \/ /\ ~VecEqual(q.axb, Zero, q.den * q.den * FP)
          /\ Abs(Dot(q.axb, q.bxc)) < SquaredLength(q.bxc)

\* The branches of HasLoop going on to the scale factor tests when the
\* points are not coplanar.
LoopDecision_NonCoplanarTested(q) ==
  IF VecEqual(q.bxc, Zero, q.den * q.den * FP)
  THEN IF ~VecEqual(q.axb, Zero, q.den * q.den * FP)
       THEN FALSE
       ELSE Length(q.d) < Length(q.b)
  ELSE \/ /\ ~VecEqual(q.axc, Zero, q.den * q.den * FP)
          /\ Abs(Dot(q.axc, q.bxc)) < SquaredLength(q.bxc)
       \/ /\ ~VecEqual(q.axb, Zero, q.den * q.den * FP)
          /\ Abs(Dot(q.axb, q.bxc)) < SquaredLength(q.bxc)

\* The branches of HasLoop on the terms q: parallel tangents first, then
\* non-coplanar points, then the two scale factor tests.
LoopDecision(q) ==
  IF VecEqual(q.bxc, Zero, q.den * q.den * FP)
  THEN IF ~VecEqual(q.axb, Zero, q.den * q.den * FP)
       THEN FALSE
       ELSE Length(q.d) < Length(q.b)
  ELSE IF ~equal(Dot(q.a, q.bxc), 0, q.den * q.den * q.den * FP)
  THEN TRUE
  ELSE \/ /\ ~VecEqual(q.axc, Zero, q.den * q.den * FP)
          /\ Abs(Dot(q.axc, q.bxc)) < SquaredLength(q.bxc)
       \/ /\ ~VecEqual(q.axb, Zero, q.den * q.den * FP)
          /\ Abs(Dot(q.axb, q.bxc)) < SquaredLength(q.bxc)

HasLoop(this) == LoopDecision(LoopTerms(this))

\* The steps of SetPoints, each from a spline value to the next.
\* this->coeffs = ComputeCubicBernsteinHermiteCoeff(startPoint, endPoint)
StoreCoeffs(this) ==
  [this EXCEPT !.coeffs =
     ComputeCubicBernsteinHermiteCoeff(this.startPoint, this.endPoint)]

\* this->startPoint.MthDerivative(m) = DoInterpolateMthDerivative(m, 0.0)
StoreStartDerivative(this, m) ==
  [this EXCEPT !.startPoint =
     SetMthDerivative(this.startPoint, m, DoInterpolateMthDerivative(this, m, 0))]

\* this->endPoint.MthDerivative(m) = DoInterpolateMthDerivative(m, 1.0)
StoreEndDerivative(this, m) ==
  [this EXCEPT !.endPoint =
     SetMthDerivative(this.endPoint, m, DoInterpolateMthDerivative(this, m, FP))]

\* this->arcLength = ArcLength(1.0)
StoreArcLength(this) == [this EXCEPT !.arcLength = ArcLength(this, FP)]

\* SetPoints adding the new total length to the cached one.
SetPoints_Accumulates(this, _startPoint, _endPoint) ==
  LET new == StoreEndDerivative(StoreEndDerivative(
               StoreStartDerivative(StoreStartDerivative(
                 StoreCoeffs([this EXCEPT !.startPoint = _startPoint,
                                          !.endPoint = _endPoint]),
                 2), 3), 2), 3)
  IN [new EXCEPT !.arcLength = this.arcLength + ArcLength(new, FP)]

\* SetPoints caching the total length before it replaces the coefficients.
SetPoints_StaleLength(this, _startPoint, _endPoint) ==
  StoreEndDerivative(StoreEndDerivative(
    StoreStartDerivative(StoreStartDerivative(
      StoreCoeffs(StoreArcLength(
        [this EXCEPT !.startPoint = _startPoint, !.endPoint = _endPoint])),
      2), 3), 2), 3)

\* SetPoints deriving orders 2 and 3 only for a point that does not carry them.
SetPoints_KeepsCarried(this, _startPoint, _endPoint) ==
  LET s1 == StoreCoeffs([this EXCEPT !.startPoint = _startPoint, !.endPoint = _endPoint])
      s2 == IF Len(s1.startPoint) >= 3 THEN s1 ELSE StoreStartDerivative(s1, 2)
      s3 == IF Len(s2.startPoint) >= 4 THEN s2 ELSE StoreStartDerivative(s2, 3)
      s4 == IF Len(s3.endPoint) >= 3 THEN s3 ELSE StoreEndDerivative(s3, 2)
      s5 == IF Len(s4.endPoint) >= 4 THEN s4 ELSE StoreEndDerivative(s4, 3)
  IN StoreArcLength(s5)

SetPoints(this, _startPoint, _endPoint) ==
  StoreArcLength(
    StoreEndDerivative(StoreEndDerivative(
      StoreStartDerivative(StoreStartDerivative(
        StoreCoeffs([this EXCEPT !.startPoint = _startPoint, !.endPoint = _endPoint]),
        2), 3), 2), 3))

(***************************************************************************)
(* The state machine: one spline object and its caller.                    *)
(***************************************************************************)
\* The four fields of the spline, and what its caller knows: ret, the latest
\* query and its result; calls, the number of SetPoints calls so far (0, 1, or
\* 2 for two and more); lastStart and lastEnd, the arguments of the latest one.
VARIABLES startPoint, endPoint, coeffs, arcLength, ret, calls, lastStart, lastEnd

vars == <<startPoint, endPoint, coeffs, arcLength, ret, calls, lastStart, lastEnd>>

Self ==
  [startPoint |-> startPoint, endPoint |-> endPoint,
   coeffs |-> coeffs, arcLength |-> arcLength]

\* The control points callers pass as SetPoints' first argument: position,
\* tangent and, for the first, a carried derivative of order 2.
StartPoints ==
  { <<Vec(0, 0, 0), Vec(1, 0, 0), Vec(5, 5, 5)>>,
    <<Vec(0, 0, 0), Vec(0, 1, 0)>>,
    <<Vec(0, 0, 0), Vec(0, 9, 0)>>,
    <<Vec(0, 0, 0), Vec(-6, 0, 0)>> }

\* The control points callers pass as SetPoints' second argument; the first
\* carries derivatives of order 2 and 3.
EndPoints ==
  { <<Vec(1, 0, 0), Vec(1, 0, 0), Vec(5, 5, 5), Vec(7, 7, 7)>>,
    <<Vec(1, 0, 0), Vec(0, -1, 0)>>,
    <<Vec(1, 0, 0), Vec(0, -9, 0)>>,
    <<Vec(1, 0, 0), Vec(-1, 0, 0)>>,
    <<Vec(1, 0, 0), Vec(-3, 0, 0)>>,
    <<Vec(2, 1, 1), Vec(-1, 1, 0)>>,
    <<Vec(0, 0, 0), Vec(0, 1, 0)>> }

\* The parameters callers query: k/TDen for k in -1 .. TDen+1.
Params == {(k * FP) \div TDen : k \in (-1)..(TDen + 1)}

Orders == 0..MaxOrder

NoRet == [op |-> "none", m |-> 0, t |-> 0, vec |-> Zero, len |-> 0, flag |-> FALSE]

Init ==
  /\ startPoint = Constructed.startPoint
  /\ endPoint = Constructed.endPoint
  /\ coeffs = Constructed.coeffs
  /\ arcLength = Constructed.arcLength
  /\ ret = NoRet
  /\ calls = 0
  /\ lastStart = <<Zero, Zero>>
  /\ lastEnd = <<Zero, Zero>>

CallSetPoints ==
  /\ \E s \in StartPoints, e \in EndPoints :
       \E new \in {SetPoints(Self, s, e)} :
          /\ startPoint' = new.startPoint
          /\ endPoint' = new.endPoint
          /\ coeffs' = new.coeffs
          /\ arcLength' = new.arcLength
          /\ lastStart' = s
          /\ lastEnd' = e
  /\ calls' = IF calls < 2 THEN calls + 1 ELSE calls
  /\ ret' = NoRet

CallInterpolateMthDerivative ==
  /\ \E m \in Orders, t \in Params :
       ret' = [NoRet EXCEPT !.op = "InterpolateMthDerivative", !.m = m, !.t = t,
                            !.vec = InterpolateMthDerivative(Self, m, t)]
  /\ UNCHANGED <<startPoint, endPoint, coeffs, arcLength, calls, lastStart, lastEnd>>

CallArcLength ==
  /\ \E t \in Params :
       ret' = [NoRet EXCEPT !.op = "ArcLength", !.t = t, !.len = ArcLength(Self, t)]
  /\ UNCHANGED <<startPoint, endPoint, coeffs, arcLength, calls, lastStart, lastEnd>>

CallHasLoop ==
  /\ ret' = [NoRet EXCEPT !.op = "HasLoop", !.flag = HasLoop(Self)]
  /\ UNCHANGED <<startPoint, endPoint, coeffs, arcLength, calls, lastStart, lastEnd>>

Next ==
  \/ CallSetPoints
  \/ CallInterpolateMthDerivative
  \/ CallArcLength
  \/ CallHasLoop

Spec == Init /\ [][Next]_vars

(***************************************************************************)
(* Properties                                                              *)
(***************************************************************************)
\* The queried parameters inside the closed interval [0,1].
Inside == {t \in Params : 0 <= t /\ t <= FP}

Outside == {t \in Params : t < 0 \/ t > FP}

Fitted == calls >= 1

\* The Bezier control points the claims name, from the arguments of the latest
\* SetPoints call, in units of 1/(3 * FP): p1 = start position, p2 = p1 +
\* startTangent/3, p3 = p4 - endTangent/3, p4 = end position.
Named ==
  LET pos0 == lastStart[1]
      tan0 == lastStart[2]
      pos1 == lastEnd[1]
      tan1 == lastEnd[2]
      p1 == <<3 * pos0[1], 3 * pos0[2], 3 * pos0[3]>>
      p4 == <<3 * pos1[1], 3 * pos1[2], 3 * pos1[3]>>
      p2 == <<p1[1] + tan0[1], p1[2] + tan0[2], p1[3] + tan0[3]>>
      p3 == <<p4[1] - tan1[1], p4[2] - tan1[2], p4[3] - tan1[3]>>
      a == Minus(p4, p1)
      b == Minus(p2, p1)
      c == Minus(p3, p4)
  IN [a |-> a, b |-> b, c |-> c, d |-> Minus(p3, p1),
      axc |-> Cross(a, c), bxc |-> Cross(b, c), axb |-> Cross(a, b)]

Square(u) == u[1] * u[1] + u[2] * u[2] + u[3] * u[3]

\* C1: for every order m and every t outside [0,1], InterpolateMthDerivative
\* returns the vector of three +infinity and ArcLength returns +infinity,
\* whatever the spline holds; for every t inside [0,1] neither returns the
\* sentinel.
C1_OutOfDomainSentinel ==
  /\ \A t \in Outside :
       /\ ArcLength(Self, t) = INF_D
       /\ \A m \in Orders : InterpolateMthDerivative(Self, m, t) = InfVector
  /\ \A t \in Inside :
       /\ ArcLength(Self, t) # INF_D
       /\ \A m \in Orders :
            \A i \in 1..3 : InterpolateMthDerivative(Self, m, t)[i] # INF_D
  /\ (ret.op = "InterpolateMthDerivative") => (ret.vec = InfVector <=> ret.t \in Outside)
  /\ (ret.op = "ArcLength") => (ret.len = INF_D <=> ret.t \in Outside)

C1_Witness ==
  /\ Fitted
  /\ ret.op = "InterpolateMthDerivative"
  /\ ret.t > FP
  /\ ret.m = MaxOrder
  /\ ret.vec = InfVector

\* C2: after SetPoints(start, end), order 0 at t = 0 and t = 1 is exactly the
\* start and the end position, and order 1 at t = 0 and t = 1 is exactly the
\* supplied start and end tangent.
C2_EndpointsExact ==
  Fitted =>
    /\ InterpolateMthDerivative(Self, 0, 0) = lastStart[1]
    /\ InterpolateMthDerivative(Self, 0, FP) = lastEnd[1]
    /\ InterpolateMthDerivative(Self, 1, 0) = lastStart[2]
    /\ InterpolateMthDerivative(Self, 1, FP) = lastEnd[2]
    /\ (ret.op = "InterpolateMthDerivative" /\ ret.m <= 1 /\ ret.t = 0)
         => ret.vec = lastStart[ret.m + 1]
    /\ (ret.op = "InterpolateMthDerivative" /\ ret.m <= 1 /\ ret.t = FP)
         => ret.vec = lastEnd[ret.m + 1]

C2_Witness ==
  /\ Fitted
  /\ ret.op = "InterpolateMthDerivative"
  /\ ret.m = 1
  /\ ret.t = FP
  /\ ret.vec = lastEnd[2]
  /\ lastEnd[2] # lastStart[2]

\* C3: if HasLoop() is false then no two distinct parameters in [0,1] give the
\* same interpolated position.
C3_NoLoopMeansInjective ==
  (Fitted /\ ~HasLoop(Self)) =>
    \A t1 \in Inside, t2 \in Inside :
      t1 # t2 => DoInterpolateMthDerivative(Self, 0, t1)
                   # DoInterpolateMthDerivative(Self, 0, t2)

\* The S-curve fixture: start (0,0,0), end (L,0,0), tangents k*(0,1,0) and
\* k*(0,-1,0), with L > 0 and k > 0.
IsFixture ==
  /\ Fitted
  /\ lastStart[1] = Zero
  /\ lastEnd[1][1] > 0 /\ lastEnd[1][2] = 0 /\ lastEnd[1][3] = 0
  /\ lastStart[2][1] = 0 /\ lastStart[2][2] > 0 /\ lastStart[2][3] = 0
  /\ lastEnd[2] = <<0, -lastStart[2][2], 0>>

\* C4 as stated: on the S-curve fixture HasLoop() is true once the tangents
\* are long (here: at least nine times the distance L between the positions).
C4_LongTangentsLoop ==
  (IsFixture /\ lastStart[2][2] >= 9 * lastEnd[1][1]) => HasLoop(Self)

\* C4 as amended: on the S-curve fixture HasLoop() is false for every tangent
\* length k > 0 and every L > 0.
C4_FixtureNeverLoops ==
  IsFixture =>
    /\ ~HasLoop(Self)
    /\ ret.op = "HasLoop" => ~ret.flag

C4_Witness ==
  /\ IsFixture
  /\ lastStart[2][2] >= 9 * lastEnd[1][1]
  /\ ret.op = "HasLoop"
  /\ ~ret.flag

\* C5: when b x c is the zero vector, HasLoop() is false if a x b is non-zero,
\* and otherwise true exactly when the distance from p1 to p3 is strictly less
\* than the length of b; the straight segment (0,0,0)->(1,0,0) with both
\* tangents (1,0,0) gives false.
C5_DegenerateCase ==
  /\ (Fitted /\ Named.bxc = Zero) =>
       /\ HasLoop(Self) = (Named.axb = Zero /\ Square(Named.d) < Square(Named.b))
       /\ ret.op = "HasLoop" => ret.flag = HasLoop(Self)
  /\ ( /\ Fitted
       /\ lastStart[1] = Vec(0, 0, 0) /\ lastStart[2] = Vec(1, 0, 0)
       /\ lastEnd[1] = Vec(1, 0, 0) /\ lastEnd[2] = Vec(1, 0, 0) )
       => ~HasLoop(Self)

C5_Witness ==
  /\ Fitted
  /\ Named.bxc = Zero
  /\ Named.axb = Zero
  /\ Square(Named.d) < Square(Named.b)
  /\ ret.op = "HasLoop"
  /\ ret.flag

\* C6: after any sequence of SetPoints calls and queries, the spline and the
\* result of every query are those of a freshly constructed spline on which
\* only the latest SetPoints(start, end) was called.
C6_SetPointsReplaces ==
  Fitted =>
    LET fresh == SetPoints(Constructed, lastStart, lastEnd)
    IN /\ Self = fresh
       /\ ret.op = "InterpolateMthDerivative"
            => ret.vec = InterpolateMthDerivative(fresh, ret.m, ret.t)
       /\ ret.op = "ArcLength" => ret.len = ArcLength(fresh, ret.t)
       /\ ret.op = "HasLoop" => ret.flag = HasLoop(fresh)

C6_Witness ==
  /\ calls = 2
  /\ Len(lastStart) = 2
  /\ Len(lastEnd) = 2
  /\ ret.op = "InterpolateMthDerivative"
  /\ ret.m = 3
  /\ ret.t = FP
  /\ ret.vec # Vec(7, 7, 7)

\* C7: ArcLength is monotone: for 0 <= t1 < t2 <= 1, ArcLength(t2) >=
\* ArcLength(t1).
C7_ArcLengthMonotone ==
  Fitted =>
    \A t1 \in Inside, t2 \in Inside :
      t1 < t2 => ArcLength(Self, t2) >= ArcLength(Self, t1)

C8_CacheAgrees ==
  Fitted =>
    /\ arcLength = ArcLength(Self, FP)
    /\ (ret.op = "ArcLength" /\ ret.t = FP) => ret.len = arcLength

\* C8: once SetPoints has been called, the cached total arc length equals
\* what ArcLength(1.0) returns, and every query leaves the cached length, the
\* coefficient matrix and both stored control points unchanged (a query is a
\* step that records a result in ret).
C8_CachedTotalLength ==
  /\ []C8_CacheAgrees
  /\ [][ret'.op # "none" =>
         UNCHANGED <<startPoint, endPoint, coeffs, arcLength>>]_vars

C8_Witness ==
  /\ Fitted
  /\ ret.op = "ArcLength"
  /\ ret.t = FP
  /\ ret.len = arcLength
  /\ arcLength > 0

\* C9: when b x c is not the zero vector, HasLoop() is true if a.(b x c) is not
\* zero, and otherwise true exactly when (a x c is non-zero and
\* |(a x c).(b x c)| / |b x c|^2 < 1) or (a x b is non-zero and
\* |(a x b).(b x c)| / |b x c|^2 < 1); |b x c|^2 is then non-zero.
C9_NonDegenerateCase ==
  (Fitted /\ Named.bxc # Zero) =>
    /\ SquaredLength(Named.bxc) > 0
    /\ HasLoop(Self) =
         IF Dot(Named.a, Named.bxc) # 0 THEN TRUE
         ELSE \/ /\ Named.axc # Zero
                 /\ Abs(Dot(Named.axc, Named.bxc)) < SquaredLength(Named.bxc)
              \/ /\ Named.axb # Zero
                 /\ Abs(Dot(Named.axb, Named.bxc)) < SquaredLength(Named.bxc)
    /\ ret.op = "HasLoop" => ret.flag = HasLoop(Self)

C9_Witness ==
  /\ Fitted
  /\ Named.bxc # Zero
  /\ Dot(Named.a, Named.bxc) = 0
  /\ Named.axc # Zero
  /\ Abs(Dot(Named.axc, Named.bxc)) < SquaredLength(Named.bxc)
  /\ ret.op = "HasLoop"
  /\ ret.flag

\* C10: after SetPoints, for every order m in 0..3 the value returned at
\* t = 0 and at t = 1 equals PolynomialPowers(m, t) times the coefficient
\* matrix, whatever order-2 or order-3 values the caller's points carried.
C10_BoundaryAgreesWithPolynomial ==
  Fitted =>
    \A m \in Orders \cap 0..3 : \A t \in {0, FP} :
      LET poly == VecMat(PolynomialPowers(m, t), coeffs)
      IN /\ InterpolateMthDerivative(Self, m, t) = <<poly[1], poly[2], poly[3]>>
         /\ (ret.op = "InterpolateMthDerivative" /\ ret.m = m /\ ret.t = t)
              => ret.vec = <<poly[1], poly[2], poly[3]>>

C10_Witness ==
  /\ Fitted
  /\ Len(lastEnd) = 4
  /\ ret.op = "InterpolateMthDerivative"
  /\ ret.m = 3
  /\ ret.t = FP
  /\ ret.vec # lastEnd[4]

====
